---- MODULE Spec2Model ----
(***************************************************************************)
(* Time-lock engine of the vault service: the message handlers of          *)
(* app/api/v1/messages.py on one vault, run as asyncio coroutines that     *)
(* interleave only at their awaits on the drand beacon                     *)
(* (app/services/drand_service.py).                                        *)
(*                                                                         *)
(* The requests are those of the vault's owner on one existing vault, so   *)
(* the 404/403 checks on the vault pass.  A step is what a coroutine does  *)
(* between two awaits that really suspend: the chain-info fetch and the    *)
(* round fetch.  Time is the server clock in whole ticks; the beacon       *)
(* produces its rounds on its own schedule.  Message fields no handler     *)
(* branches on (title, created_at, created_by, size) are left out.         *)
(*                                                                         *)
(* Spec and SpecAccess run the handlers.  SpecBeacon and SpecSeal call the *)
(* methods of DrandService directly, on any round, envelope, target time   *)
(* and chain parameters, the way tests/test_drand_service.py does.         *)
(***************************************************************************)
EXTENDS Integers, Sequences, FiniteSets, Bags, TLC

VARIABLES
    now,            \* wall clock, datetime.now(timezone.utc), in whole ticks
    latest,         \* highest round the beacon has produced so far
    messages,       \* vault.messages: the ordered list of message ids
    heap,           \* the Message objects, by id (a handler may still hold a deleted one)
    message_count,  \* vault.message_count: {total, locked, unlocked}
    next_id,        \* number of messages created so far (uuid4 never repeats)
    tasks,          \* the suspended coroutines: a bag of frames (await point, locals)
    resp,           \* the last HTTP response sent, or the outcome of the last service call
    denied,         \* the rounds is_round_available has answered False for so far
    vaults_db,      \* the vault ids that are keys of VAULTS_DB
    vault_shares    \* VAULT_SHARES[vault_id]: the permission of each user the vault is shared with

vars == <<now, latest, messages, heap, message_count, next_id, tasks, resp, denied,
          vaults_db, vault_shares>>

----------------------------------------------------------------------------
(* Bounds of the model *)

MaxTasks == 2
MaxTime == 2
MaxMessages == 1
Period == 2

(* chain_info.get("genesis_time", 0) *)
Genesis == 0

Times == 0..MaxTime
(* ContentType.VIDEO takes the IMAGE branch wherever the handlers branch on the type *)
MediaTypes == {"image"}
(* (offset, limit) of a listing: the defaults, and a second page of one *)
Pagings == {<<0, 50>>, <<1, 1>>}
StatusFilters == {"all", "locked", "unlocked"}
(* text contents; a string is the sequence of its parts, so that a submitted
   text and a text the handler assembles can be compared *)
Payloads == {<<"secret">>}
MediaHashes == {"abc123"}
None == "None"
NoBody == <<>>

(* the one vault of the model, created by its owner before the model starts *)
VaultId == "vault"
Owner == "owner"
NoShares == <<>>

(* VAULTS_DB[vault_id] = vault, the statement that ends a handler's update *)
StoreVault(db) == db \cup {VaultId}

----------------------------------------------------------------------------
(* Helpers *)

Range(s) == {s[i] : i \in 1..Len(s)}

RECURSIVE SelectIds(_, _)
SelectIds(s, keep) ==
    IF s = <<>> THEN <<>>
    ELSE IF Head(s) \in keep THEN <<Head(s)>> \o SelectIds(Tail(s), keep)
         ELSE SelectIds(Tail(s), keep)

(* Python slice s[offset:offset+limit] *)
Slice(s, offset, limit) ==
    SubSeq(s, offset + 1, IF offset + limit < Len(s) THEN offset + limit ELSE Len(s))

Abs(x) == IF x >= 0 THEN x ELSE -x

(* int(x / y) for a float quotient, y # 0: truncation toward zero *)
TruncDiv(x, y) ==
    IF (x >= 0) = (y > 0) THEN Abs(x) \div Abs(y) ELSE -(Abs(x) \div Abs(y))

(* the chain parameters the handlers' beacon serves *)
ChainInfo == [genesis_time |-> Genesis, period |-> Period]

round_for_time_current(chain_info, target_time) ==
    TruncDiv(target_time - chain_info.genesis_time, chain_info.period)

round_for_time_distance(chain_info, target_time) ==
    TruncDiv(Abs(target_time - chain_info.genesis_time), chain_info.period) + 1

(* the arithmetic of DrandService.compute_round_for_time on fetched chain
   parameters whose period is not 0 *)
round_for_time(chain_info, target_time) ==
    TruncDiv(target_time - chain_info.genesis_time, chain_info.period) + 1

(* DrandService.compute_round_for_time, after a successful chain-info fetch *)
compute_round_for_time(target_time) == round_for_time(ChainInfo, target_time)

(* the beacon is followed up to the round of the latest unlock time *)
MaxRound == compute_round_for_time(MaxTime)

(* the round fetch succeeds exactly for rounds the beacon has produced *)
round_exists(round_number) == round_number <= latest

RoundOutcomesCached(round_number) ==
    IF round_number \in denied THEN {"notfound"}
    ELSE {IF round_exists(round_number) THEN "ok" ELSE "notfound", "unavailable", "unreachable"}

(* what the beacon may answer to DrandService.get_round: the round, 404 for a
   round not produced yet, another non-2xx status, or nothing at all *)
RoundOutcomes(round_number) ==
    {IF round_exists(round_number) THEN "ok" ELSE "notfound", "unavailable", "unreachable"}

(* the status DrandService.get_round ends with when it raises: 404, else 503;
   the handler reads e.response, which an httpx error without a response
   (no answer from the beacon) may not carry, and the request then ends 500 *)
get_round_raises(outcome) ==
    CASE outcome = "notfound" -> {404}
      [] outcome = "unavailable" -> {503}
      [] outcome = "unreachable" -> {503, 500}
      [] OTHER -> {}

is_round_available_swallowing(outcome) == IF outcome = "ok" THEN "true" ELSE "false"

is_round_available_optimistic(outcome) ==
    IF outcome \in {"ok", "notfound"} THEN "true" ELSE "raise"

is_round_available_uncaught(outcome) == IF outcome = "ok" THEN "true" ELSE "raise"

(* DrandService.is_round_available: True, False on 404, any other error re-raised *)
is_round_available(outcome) ==
    CASE outcome = "ok" -> "true"
      [] outcome = "notfound" -> "false"
      [] OTHER -> "raise"

(* outcomes of DrandService.get_chain_info: any httpx error becomes a 503 *)
ChainOutcomes == {"ok", "unavailable"}

(* the suspended coroutines: one frame per request waiting on the beacon *)
Frames(ts) == BagToSet(ts)
Suspend(ts, f) == ts (+) SetToBag({f})
Resume(ts, f) == ts (-) SetToBag({f})

(* objects still referenced: in the vault's list or held by a suspended handler *)
Referenced(msgs, ts) ==
    Range(msgs) \cup {f.message_id : f \in {g \in Frames(ts) : g.op = "get"}}

(* reference counting: an object lives while the vault or a frame refers to it *)
Collect(h, msgs, ts) == [id \in (DOMAIN h) \cap Referenced(msgs, ts) |-> h[id]]

Respond(op, status, body) == [op |-> op, status |-> status, body |-> body]

----------------------------------------------------------------------------
Init ==
    /\ now = 0
    /\ latest = 0
    /\ messages = <<>>
    /\ heap = <<>>
    /\ message_count = [total |-> 0, locked |-> 0, unlocked |-> 0]
    /\ next_id = 0
    /\ tasks = EmptyBag
    /\ resp = Respond("none", 0, NoBody)
    /\ denied = {}
    /\ vaults_db = {VaultId}
    /\ vault_shares = NoShares

(* the environment: time passes, the beacon produces rounds *)
Tick ==
    /\ now < MaxTime
    /\ now' = now + 1
    /\ UNCHANGED <<latest, messages, heap, message_count, next_id, tasks, resp, denied, vaults_db, vault_shares>>

BeaconProduce ==
    /\ latest < MaxRound
    /\ latest' = latest + 1
    /\ UNCHANGED <<now, messages, heap, message_count, next_id, tasks, resp, denied, vaults_db, vault_shares>>

----------------------------------------------------------------------------
(* get_vault_messages: no await, one atomic step *)

ListLockStateInclusive(m, t) == m.unlock_time >= t

ListLockState(m, t) == m.unlock_time > t

get_vault_messages(status, offset, limit) ==
    /\ LET relocked == [id \in DOMAIN heap |->
                          IF id \in Range(messages)
                          THEN [heap[id] EXCEPT !.is_locked = ListLockState(heap[id], now)]
                          ELSE heap[id]]
           keep == CASE status = "locked" -> {id \in Range(messages) : relocked[id].is_locked}
                     [] status = "unlocked" -> {id \in Range(messages) : ~relocked[id].is_locked}
                     [] OTHER -> Range(messages)
           filtered == SelectIds(messages, keep)
       IN /\ heap' = relocked
          /\ resp' = Respond("list", 200, Slice(filtered, offset, limit))
    /\ UNCHANGED <<now, latest, messages, message_count, next_id, tasks, denied, vaults_db, vault_shares>>

----------------------------------------------------------------------------
(* add_vault_message: suspended once, on the chain-info fetch of            *)
(* compute_round_for_time; encrypt_message never suspends                   *)

CanStart == BagCardinality(tasks) < MaxTasks

InFlightAdds == BagCardinality([f \in {g \in Frames(tasks) : g.op = "add"} |-> tasks[f]])

add_vault_message_start(user, content_type, content, media_content_hash, unlock_time) ==
    /\ CanStart
    /\ next_id + InFlightAdds < MaxMessages
    /\ IF unlock_time <= now
       THEN /\ resp' = Respond("add", 400, NoBody)
            /\ UNCHANGED tasks
       ELSE /\ tasks' = Suspend(tasks,
                            [op |-> "add", at |-> "chain", user |-> user,
                             content_type |-> content_type,
                             content |-> content, media_content_hash |-> media_content_hash,
                             unlock_time |-> unlock_time])
            /\ UNCHANGED resp
    /\ UNCHANGED <<now, latest, messages, heap, message_count, next_id, denied, vaults_db, vault_shares>>

(* json.dumps of a dict: the text of its items, one <<key, value>> per item,
   in the order the dict literal of encrypt_message lists its keys *)
JsonKeyOrder == <<"target_round", "message_hash", "payload">>
json_dumps(data) ==
    [i \in 1..Len(SelectSeq(JsonKeyOrder, LAMBDA k : k \in DOMAIN data)) |->
        LET k == SelectSeq(JsonKeyOrder, LAMBDA key : key \in DOMAIN data)[i]
        IN <<k, data[k]>>]

(* a text json.loads rejects *)
Malformed == <<"not json">>

(* json.loads of a text json.dumps wrote: the dict of its items *)
json_loads(text) ==
    [k \in {text[i][1] : i \in DOMAIN text} |->
        text[CHOOSE i \in DOMAIN text : text[i][1] = k][2]]

encrypt_message_tag_as_payload(message, target_round) ==
    LET encrypted_message == json_dumps([target_round |-> target_round,
                                         message_hash |-> <<"sha256", message>>,
                                         payload |-> <<"sha256", message>>])
    IN <<encrypted_message, <<"sha256", encrypted_message>>>>

(* DrandService.encrypt_message: the envelope as JSON text, and the hash of
   that text *)
encrypt_message(message, target_round) ==
    LET encrypted_message == json_dumps([target_round |-> target_round,
                                         message_hash |-> <<"sha256", message>>,
                                         payload |-> message])
    IN <<encrypted_message, <<"sha256", encrypted_message>>>>

(* the Message add_vault_message builds once it has the target round *)
SealMessage(id, l, target_round) ==
    [id |-> id, content_type |-> l.content_type, unlock_time |-> l.unlock_time,
     created_by |-> l.user, is_locked |-> TRUE, content |-> None, media_url |-> None,
     encrypted_hash |->
        IF l.content_type = "text"
        THEN encrypt_message(l.content, target_round)[2]
        ELSE l.media_content_hash]

NewMessage(id, l) == SealMessage(id, l, compute_round_for_time(l.unlock_time))

AddCountAsUnlocked(c) == [c EXCEPT !.total = @ + 1, !.unlocked = @ + 1]

AddCount(c) == [c EXCEPT !.total = @ + 1, !.locked = @ + 1]

(* the rest of add_vault_message once the chain-info fetch has ended, with
   an error or with the chain info the beacon answered *)
add_vault_message_chain(f, outcome, chain_info) ==
    /\ BagIn(f, tasks) /\ f.op = "add" /\ f.at = "chain"
    /\ tasks' = Resume(tasks, f)
    /\ IF outcome = "unavailable"
       THEN /\ resp' = Respond("add", 503, NoBody)
            /\ UNCHANGED <<messages, heap, message_count, next_id, vaults_db>>
       ELSE LET id == next_id + 1
                new_message == SealMessage(id, f, round_for_time(chain_info, f.unlock_time))
            IN /\ next_id' = id
               /\ messages' = Append(messages, id)
               /\ heap' = (id :> new_message) @@ heap
               /\ message_count' = AddCount(message_count)
               /\ vaults_db' = StoreVault(vaults_db)
               /\ resp' = Respond("add", 201, new_message)
    /\ UNCHANGED <<now, latest, denied, vault_shares>>

(* the same against the beacon's one chain *)
add_vault_message_resume(f, outcome) == add_vault_message_chain(f, outcome, ChainInfo)

----------------------------------------------------------------------------
(* get_message_details: suspended on the chain-info fetch, then on the      *)
(* round fetch of is_round_available                                        *)

NeedsUnlockIgnoringLock(m, t) == m.unlock_time <= t

NeedsUnlock(m, t) == m.unlock_time <= t /\ m.is_locked

get_message_details_start(message_id) ==
    /\ CanStart
    /\ IF message_id \notin Range(messages)
       THEN /\ resp' = Respond("get", 404, NoBody)
            /\ UNCHANGED tasks
       ELSE IF NeedsUnlock(heap[message_id], now)
       THEN /\ tasks' = Suspend(tasks, [op |-> "get", at |-> "chain",
                                        message_id |-> message_id])
            /\ UNCHANGED resp
       ELSE /\ resp' = Respond("get", 200, heap[message_id])
            /\ UNCHANGED tasks
    /\ UNCHANGED <<now, latest, messages, heap, message_count, next_id, denied, vaults_db, vault_shares>>

(* get_message_details once its chain-info fetch has ended, with an error or
   with the chain info the beacon answered *)
get_message_details_chain_info(f, outcome, chain_info) ==
    /\ BagIn(f, tasks) /\ f.op = "get" /\ f.at = "chain"
    /\ IF outcome = "unavailable"
       THEN /\ tasks' = Resume(tasks, f)
            /\ heap' = Collect(heap, messages, tasks')
            /\ resp' = Respond("get", 503, NoBody)
       ELSE /\ tasks' = Suspend(Resume(tasks, f),
                            [op |-> "get", at |-> "round", message_id |-> f.message_id,
                             target_round |->
                                round_for_time(chain_info, heap[f.message_id].unlock_time)])
            /\ UNCHANGED <<heap, resp>>
    /\ UNCHANGED <<now, latest, messages, message_count, next_id, denied, vaults_db, vault_shares>>

(* the same against the beacon's one chain *)
get_message_details_chain(f, outcome) == get_message_details_chain_info(f, outcome, ChainInfo)

FakeContent(message_id) == <<"This is the decrypted content for message", message_id>>
MediaUrl(m) == <<"https://example.com/media/", m.encrypted_hash>>

RevealFlagOnly(m) == [m EXCEPT !.is_locked = FALSE]

Reveal(m) ==
    IF m.content_type = "text"
    THEN [m EXCEPT !.content = FakeContent(m.id), !.is_locked = FALSE]
    ELSE [m EXCEPT !.media_url = MediaUrl(m), !.is_locked = FALSE]

UnlockCount(c) == [c EXCEPT !.locked = @ - 1, !.unlocked = @ + 1]

get_message_details_round(f, outcome) ==
    /\ BagIn(f, tasks) /\ f.op = "get" /\ f.at = "round"
    /\ outcome \in RoundOutcomes(f.target_round)
    /\ tasks' = Resume(tasks, f)
    /\ LET id == f.message_id
           message == heap[id]
           round_available == is_round_available(outcome)
       IN CASE round_available = "raise" ->
                 /\ \E st \in get_round_raises(outcome) : resp' = Respond("get", st, NoBody)
                 /\ heap' = Collect(heap, messages, tasks')
                 /\ UNCHANGED <<message_count, vaults_db>>
            [] round_available = "false" ->
                 /\ resp' = Respond("get", 200, message)
                 /\ heap' = Collect(heap, messages, tasks')
                 /\ UNCHANGED <<message_count, vaults_db>>
            [] OTHER ->
                 /\ resp' = Respond("get", 200, Reveal(message))
                 /\ heap' = Collect([heap EXCEPT ![id] = Reveal(message)], messages, tasks')
                 /\ message_count' = UnlockCount(message_count)
                 /\ vaults_db' = StoreVault(vaults_db)
    /\ UNCHANGED <<now, latest, messages, next_id, denied, vault_shares>>

----------------------------------------------------------------------------
(* delete_message: no await, one atomic step *)

DeleteCountKeepsTotal(c, m) ==
    IF m.is_locked THEN [c EXCEPT !.locked = @ - 1] ELSE [c EXCEPT !.unlocked = @ - 1]

DeleteCount(c, m) ==
    IF m.is_locked
    THEN [c EXCEPT !.total = @ - 1, !.locked = @ - 1]
    ELSE [c EXCEPT !.total = @ - 1, !.unlocked = @ - 1]

delete_message(message_id) ==
    /\ IF message_id \notin Range(messages)
       THEN /\ resp' = Respond("delete", 404, NoBody)
            /\ UNCHANGED <<messages, heap, message_count>>
       ELSE /\ messages' = SelectIds(messages, Range(messages) \ {message_id})
            /\ message_count' = DeleteCount(message_count, heap[message_id])
            /\ heap' = Collect(heap, messages', tasks)
            /\ resp' = Respond("delete", 204, NoBody)
    /\ UNCHANGED <<now, latest, next_id, tasks, denied, vaults_db, vault_shares>>

----------------------------------------------------------------------------
MessageIds == 1..MaxMessages

Next ==
    \/ Tick
    \/ BeaconProduce
    \/ \E s \in StatusFilters, pg \in Pagings : get_vault_messages(s, pg[1], pg[2])
    \/ \E ut \in Times, c \in Payloads : add_vault_message_start(Owner, "text", c, None, ut)
    \/ \E ut \in Times, h \in MediaHashes, ct \in MediaTypes :
          add_vault_message_start(Owner, ct, None, h, ut)
    \/ \E f \in Frames(tasks), o \in ChainOutcomes : add_vault_message_resume(f, o)
    \/ \E id \in MessageIds : get_message_details_start(id)
    \/ \E f \in Frames(tasks), o \in ChainOutcomes : get_message_details_chain(f, o)
    \/ \E f \in Frames(tasks), o \in {"ok", "notfound", "unavailable", "unreachable"} :
          get_message_details_round(f, o)
    \/ \E id \in MessageIds : delete_message(id)

Spec == Init /\ [][Next]_vars

----------------------------------------------------------------------------
(* Concurrent accesses to one stored message: the vault holds one LOCKED    *)
(* message whose unlock time has passed and whose target round the beacon   *)
(* has produced (the state after add_vault_message, some ticks and some     *)
(* rounds), and from then on only get_message_details requests arrive.      *)

SealedMessage(content_type, unlock_time) ==
    NewMessage(1, [user |-> Owner, content_type |-> content_type,
                   content |-> IF content_type = "text"
                               THEN CHOOSE p \in Payloads : TRUE ELSE None,
                   media_content_hash |-> IF content_type = "text"
                                          THEN None ELSE CHOOSE h \in MediaHashes : TRUE,
                   unlock_time |-> unlock_time])

InitAccess ==
    \E ct \in {"text"} \cup MediaTypes, ut \in 1..MaxTime :
        /\ now \in ut..MaxTime
        /\ latest \in compute_round_for_time(ut)..MaxRound
        /\ messages = <<1>>
        /\ heap = (1 :> SealedMessage(ct, ut))
        /\ message_count = [total |-> 1, locked |-> 1, unlocked |-> 0]
        /\ next_id = 1
        /\ tasks = EmptyBag
        /\ resp = Respond("add", 201, SealedMessage(ct, ut))
        /\ denied = {}
        /\ vaults_db = {VaultId}
        /\ vault_shares = NoShares

NextAccess ==
    \/ Tick
    \/ BeaconProduce
    \/ get_message_details_start(1)
    \/ \E f \in Frames(tasks), o \in ChainOutcomes : get_message_details_chain(f, o)
    \/ \E f \in Frames(tasks), o \in {"ok", "unavailable", "unreachable"} :
          get_message_details_round(f, o)

SpecAccess == InitAccess /\ [][NextAccess]_vars

----------------------------------------------------------------------------
(* Adding to a vault that already holds a message: the vault holds one       *)
(* message created earlier, either still LOCKED or unlocked by an access,   *)
(* and from then on add_vault_message requests arrive.                      *)

(* the id of the message created earlier *)
EarlierId == 0

EarlierMessage(content_type, unlock_time, unlocked) ==
    LET m == [SealedMessage(content_type, unlock_time) EXCEPT !.id = EarlierId]
    IN IF unlocked THEN Reveal(m) ELSE m

InitAdd ==
    \E ct \in {"text"} \cup MediaTypes, ut \in 1..MaxTime, unlocked \in BOOLEAN :
        /\ now \in (IF unlocked THEN ut ELSE 0)..MaxTime
        /\ latest = IF unlocked THEN compute_round_for_time(ut) ELSE 0
        /\ messages = <<EarlierId>>
        /\ heap = (EarlierId :> EarlierMessage(ct, ut, unlocked))
        /\ message_count = IF unlocked THEN [total |-> 1, locked |-> 0, unlocked |-> 1]
                                       ELSE [total |-> 1, locked |-> 1, unlocked |-> 0]
        /\ next_id = 0
        /\ tasks = EmptyBag
        /\ resp = Respond("none", 0, NoBody)
        /\ denied = {}
        /\ vaults_db = {VaultId}
        /\ vault_shares = NoShares

NextAdd ==
    \/ Tick
    \/ \E ut \in Times, c \in Payloads : add_vault_message_start(Owner, "text", c, None, ut)
    \/ \E ut \in Times, h \in MediaHashes, ct \in MediaTypes :
          add_vault_message_start(Owner, ct, None, h, ut)
    \/ \E f \in Frames(tasks), o \in ChainOutcomes : add_vault_message_resume(f, o)

SpecAdd == InitAdd /\ [][NextAdd]_vars

----------------------------------------------------------------------------
(* DrandService called directly, as tests/test_drand_service.py does: the   *)
(* service keeps nothing between two calls, so one call runs at a time.     *)
(* The vault stays as Init leaves it.                                       *)

Rounds == 1..MaxRound
(* the status of a call that returns: no exception raised *)
Returned == 0

(* how a direct call ends: the value it returns, or the status of the
   exception it raises (500: an exception that is not an HTTPException) *)
ServiceResult(op, arg, status, value) == Respond(op, status, [arg |-> arg, value |-> value])

CanCall == tasks = EmptyBag

is_round_available_call(round_number) ==
    /\ CanCall
    /\ tasks' = Suspend(tasks, [op |-> "is_round_available", at |-> "round",
                                round_number |-> round_number])
    /\ UNCHANGED <<now, latest, messages, heap, message_count, next_id, resp, denied, vaults_db, vault_shares>>

is_round_available_return(f, outcome) ==
    /\ f \in Frames(tasks)
    /\ f.op = "is_round_available"
    /\ outcome \in RoundOutcomes(f.round_number)
    /\ tasks' = Resume(tasks, f)
    /\ LET available == is_round_available(outcome)
       IN CASE available = "true" ->
                 /\ resp' = ServiceResult(f.op, f.round_number, Returned, "True")
                 /\ UNCHANGED denied
            [] available = "false" ->
                 /\ resp' = ServiceResult(f.op, f.round_number, Returned, "False")
                 /\ denied' = denied \cup {f.round_number}
            [] OTHER ->
                 /\ \E st \in get_round_raises(outcome) :
                        resp' = ServiceResult(f.op, f.round_number, st, None)
                 /\ UNCHANGED denied
    /\ UNCHANGED <<now, latest, messages, heap, message_count, next_id, vaults_db, vault_shares>>

AllRoundOutcomes == {"ok", "notfound", "unavailable", "unreachable"}

(* the texts a caller may pass for sealing or place in an envelope *)
Texts == Payloads \cup {<<"forged">>}

(* the texts passed to decrypt_message: what encrypt_message returns, JSON
   envelopes whose payload is not the one their message_hash was taken from,
   and a malformed text *)
EncryptedData ==
    {encrypt_message(m, n)[1] : m \in Texts, n \in Rounds}
    \cup {json_dumps([target_round |-> e[1], message_hash |-> <<"sha256", e[2]>>,
                      payload |-> e[3]]) :
            e \in {x \in Rounds \X Texts \X Texts : x[2] # x[3]}}
    \cup {Malformed}

(* DrandService.decrypt_message up to its await: json.loads and the two gets *)
decrypt_message_call(encrypted_data) ==
    /\ CanCall
    /\ IF encrypted_data = Malformed
       THEN /\ resp' = ServiceResult("decrypt_message", encrypted_data, 400, None)
            /\ UNCHANGED tasks
       ELSE /\ LET data == json_loads(encrypted_data)
               IN tasks' = Suspend(tasks, [op |-> "decrypt_message", at |-> "round",
                                           round_number |-> data.target_round,
                                           payload |-> data.payload,
                                           encrypted_data |-> encrypted_data])
            /\ UNCHANGED resp
    /\ UNCHANGED <<now, latest, messages, heap, message_count, next_id, denied, vaults_db, vault_shares>>

(* DrandService.decrypt_message from the answer of is_round_available on *)
decrypt_message_return(f, outcome) ==
    /\ f \in Frames(tasks)
    /\ f.op = "decrypt_message"
    /\ outcome \in RoundOutcomes(f.round_number)
    /\ tasks' = Resume(tasks, f)
    /\ LET available == is_round_available(outcome)
       IN CASE available = "true" ->
                 /\ resp' = ServiceResult(f.op, f.encrypted_data, Returned, f.payload)
                 /\ UNCHANGED denied
            [] available = "false" ->
                 /\ resp' = ServiceResult(f.op, f.encrypted_data, Returned, None)
                 /\ denied' = denied \cup {f.round_number}
            [] OTHER ->
                 /\ \E st \in get_round_raises(outcome) :
                        resp' = ServiceResult(f.op, f.encrypted_data, st, None)
                 /\ UNCHANGED denied
    /\ UNCHANGED <<now, latest, messages, heap, message_count, next_id, vaults_db, vault_shares>>

(* DrandService.get_round called directly, up to its await on client.get *)
get_round_call(round_number) ==
    /\ CanCall
    /\ tasks' = Suspend(tasks, [op |-> "get_round", at |-> "round",
                                round_number |-> round_number])
    /\ UNCHANGED <<now, latest, messages, heap, message_count, next_id, resp, denied, vaults_db, vault_shares>>

(* the rest of it: the round's JSON on a 2xx answer, else what it raises *)
get_round_return(f, outcome) ==
    /\ f \in Frames(tasks)
    /\ f.op = "get_round"
    /\ outcome \in RoundOutcomes(f.round_number)
    /\ tasks' = Resume(tasks, f)
    /\ LET arg == [round_number |-> f.round_number, beacon |-> outcome]
       IN IF outcome = "ok"
          THEN resp' = ServiceResult(f.op, arg, Returned, [round |-> f.round_number])
          ELSE \E st \in get_round_raises(outcome) : resp' = ServiceResult(f.op, arg, st, None)
    /\ UNCHANGED <<now, latest, messages, heap, message_count, next_id, denied, vaults_db, vault_shares>>

NextBeacon ==
    \/ BeaconProduce
    \/ \E n \in Rounds : get_round_call(n)
    \/ \E f \in Frames(tasks), o \in AllRoundOutcomes : get_round_return(f, o)
    \/ \E n \in Rounds : is_round_available_call(n)
    \/ \E f \in Frames(tasks), o \in AllRoundOutcomes : is_round_available_return(f, o)
    \/ \E d \in EncryptedData : decrypt_message_call(d)
    \/ \E f \in Frames(tasks), o \in AllRoundOutcomes : decrypt_message_return(f, o)

SpecBeacon == Init /\ [][NextBeacon]_vars

----------------------------------------------------------------------------
(* Sealing called directly: compute_round_for_time on whatever chain         *)
(* parameters the beacon's /info answers, then encrypt_message              *)

MaxTarget == 9
LateGenesis == 5

(* the chain of tests/test_drand_service.py *)
TestGenesis == 1595431050
TestPeriod == 30
TestChain == [genesis_time |-> TestGenesis, period |-> TestPeriod]

(* chain parameters as read by the two chain_info.get calls: well-formed
   ones, and ones with a zero or negative period *)
ChainParameters ==
    {[genesis_time |-> g, period |-> p] :
        g \in {Genesis, LateGenesis}, p \in {-Period, 0, Period}} \cup {TestChain}

(* target times as whole seconds *)
TargetTimes == (0..MaxTarget) \cup {TestGenesis - 1, TestGenesis + 301}

(* DrandService.compute_round_for_time up to its await on get_chain_info *)
compute_round_for_time_call(target_time) ==
    /\ CanCall
    /\ tasks' = Suspend(tasks, [op |-> "compute_round_for_time", at |-> "chain",
                                target_time |-> target_time, called_at |-> now])
    /\ UNCHANGED <<now, latest, messages, heap, message_count, next_id, resp, denied, vaults_db, vault_shares>>

(* get_chain_info raises its 503, which compute_round_for_time lets through *)
compute_round_for_time_fail(f) ==
    /\ f \in Frames(tasks)
    /\ f.op = "compute_round_for_time"
    /\ tasks' = Resume(tasks, f)
    /\ resp' = ServiceResult(f.op, [target_time |-> f.target_time, called_at |-> f.called_at,
                                    chain_info |-> None], 503, None)
    /\ UNCHANGED <<now, latest, messages, heap, message_count, next_id, denied, vaults_db, vault_shares>>

(* get_chain_info answers: a period of 0 ends the float division with
   ZeroDivisionError, otherwise the round is returned *)
compute_round_for_time_return(f, chain_info) ==
    /\ f \in Frames(tasks)
    /\ f.op = "compute_round_for_time"
    /\ tasks' = Resume(tasks, f)
    /\ LET arg == [target_time |-> f.target_time, called_at |-> f.called_at,
                   chain_info |-> chain_info]
       IN IF chain_info.period = 0
          THEN resp' = ServiceResult(f.op, arg, 500, None)
          ELSE resp' = ServiceResult(f.op, arg, Returned,
                                     round_for_time(chain_info, f.target_time))
    /\ UNCHANGED <<now, latest, messages, heap, message_count, next_id, denied, vaults_db, vault_shares>>

(* DrandService.encrypt_message called directly: it awaits nothing *)
encrypt_message_call(message, target_round) ==
    /\ CanCall
    /\ resp' = ServiceResult("encrypt_message",
                             [message |-> message, target_round |-> target_round],
                             Returned, encrypt_message(message, target_round))
    /\ UNCHANGED <<now, latest, messages, heap, message_count, next_id, tasks, denied, vaults_db, vault_shares>>

MaxSealRound == 4
SealRounds == 1..MaxSealRound

time_for_round_start(chain_info, round_number) ==
    chain_info.genesis_time + ((round_number - 1) * chain_info.period)

(* the arithmetic of DrandService.time_for_round, as a timestamp in whole seconds *)
time_for_round(chain_info, round_number) ==
    chain_info.genesis_time + (round_number * chain_info.period)

(* DrandService.time_for_round up to its await on get_chain_info *)
time_for_round_call(round_number) ==
    /\ CanCall
    /\ tasks' = Suspend(tasks, [op |-> "time_for_round", at |-> "chain",
                                round_number |-> round_number])
    /\ UNCHANGED <<now, latest, messages, heap, message_count, next_id, resp, denied, vaults_db, vault_shares>>

(* get_chain_info raises its 503, which time_for_round lets through *)
time_for_round_fail(f) ==
    /\ f \in Frames(tasks)
    /\ f.op = "time_for_round"
    /\ tasks' = Resume(tasks, f)
    /\ resp' = ServiceResult(f.op, [round_number |-> f.round_number, chain_info |-> None],
                             503, None)
    /\ UNCHANGED <<now, latest, messages, heap, message_count, next_id, denied, vaults_db, vault_shares>>

time_for_round_return(f, chain_info) ==
    /\ f \in Frames(tasks)
    /\ f.op = "time_for_round"
    /\ tasks' = Resume(tasks, f)
    /\ resp' = ServiceResult(f.op, [round_number |-> f.round_number, chain_info |-> chain_info],
                             Returned, time_for_round(chain_info, f.round_number))
    /\ UNCHANGED <<now, latest, messages, heap, message_count, next_id, denied, vaults_db, vault_shares>>

NextSeal ==
    \/ Tick
    \/ \E t \in TargetTimes : compute_round_for_time_call(t)
    \/ \E f \in Frames(tasks) : compute_round_for_time_fail(f)
    \/ \E f \in Frames(tasks), c \in ChainParameters : compute_round_for_time_return(f, c)
    \/ \E m \in Texts, n \in Rounds : encrypt_message_call(m, n)
    \/ \E n \in SealRounds : time_for_round_call(n)
    \/ \E f \in Frames(tasks) : time_for_round_fail(f)
    \/ \E f \in Frames(tasks), c \in ChainParameters : time_for_round_return(f, c)

SpecSeal == Init /\ [][NextSeal]_vars

----------------------------------------------------------------------------
(* Vaults and sharing: the handlers of vaults.py, none of which awaits, and  *)
(* the vault and permission checks that open every handler of messages.py   *)

Friend == "friend"
Guest == "guest"

(* the registered users: the owner, a user with a username, a user without *)
USERS_DB ==
    (Owner :> [identifier |-> "owner@example.com", username |-> "owner"]) @@
    (Friend :> [identifier |-> "friend@example.com", username |-> "Friend"]) @@
    (Guest :> [identifier |-> "guest@example.com", username |-> None])

Callers == DOMAIN USERS_DB

(* str.lower on the names that occur *)
lower(text) ==
    CASE text \in {"Friend", "FRIEND"} -> "friend"
      [] text = "Guest@Example.com" -> "guest@example.com"
      [] OTHER -> text

SharePermissions == {"read", "readwrite"}

(* whom a ShareVaultRequest names: a username or an identifier, in any case *)
ShareTargets ==
    {[username |-> "FRIEND", identifier |-> None],
     [username |-> None, identifier |-> "Guest@Example.com"],
     [username |-> "owner", identifier |-> None],
     [username |-> "nobody", identifier |-> None]}

(* the user ids a path may name *)
UserIds == Callers \cup {"nobody"}

find_by_username(username) ==
    {uid \in DOMAIN USERS_DB :
        /\ USERS_DB[uid].username # None
        /\ lower(USERS_DB[uid].username) = lower(username)}

find_by_identifier(identifier) ==
    {uid \in DOMAIN USERS_DB : lower(USERS_DB[uid].identifier) = lower(identifier)}

(* the target lookup of share_vault: by username if one is given, else by
   identifier; None when nobody matches *)
target_user(share_request) ==
    LET found == IF share_request.username # None
                 THEN find_by_username(share_request.username)
                 ELSE IF share_request.identifier # None
                 THEN find_by_identifier(share_request.identifier)
                 ELSE {}
    IN IF found = {} THEN None ELSE CHOOSE uid \in found : TRUE

has_access_owner_only(user) == user = Owner

(* the access check of the reading handlers *)
has_access(user) == user = Owner \/ user \in DOMAIN vault_shares

has_write_permission_any_share(user) == user = Owner \/ user \in DOMAIN vault_shares

(* the permission check of add_vault_message *)
has_write_permission(user) ==
    \/ user = Owner
    \/ user \in DOMAIN vault_shares /\ vault_shares[user] = "readwrite"

(* the permission check of delete_message: the owner, or the creator of the
   message if it is stored *)
has_delete_permission(user, message_id) ==
    \/ user = Owner
    \/ message_id \in Range(messages) /\ heap[message_id].created_by = user

(* raise HTTPException: the request ends and nothing was changed *)
Reject(response) ==
    /\ resp' = response
    /\ UNCHANGED <<now, latest, messages, heap, message_count, next_id, tasks, denied,
                   vaults_db, vault_shares>>

(* the answer of a vault handler, with the authenticated caller it answers *)
VaultResult(op, current_user, status) == Respond(op, status, [current_user |-> current_user])

get_vault_details(current_user) ==
    IF VaultId \notin vaults_db
    THEN Reject(VaultResult("get_vault_details", current_user, 404))
    ELSE IF ~has_access(current_user)
    THEN Reject(VaultResult("get_vault_details", current_user, 403))
    ELSE Reject(VaultResult("get_vault_details", current_user, 200))

delete_vault(current_user) ==
    IF VaultId \notin vaults_db
    THEN Reject(VaultResult("delete_vault", current_user, 404))
    ELSE IF Owner # current_user
    THEN Reject(VaultResult("delete_vault", current_user, 403))
    ELSE /\ vaults_db' = vaults_db \ {VaultId}
         /\ vault_shares' = NoShares
         /\ resp' = VaultResult("delete_vault", current_user, 204)
         /\ UNCHANGED <<now, latest, messages, heap, message_count, next_id, tasks, denied>>

share_vault(current_user, share_request, permissions) ==
    IF VaultId \notin vaults_db
    THEN Reject(VaultResult("share_vault", current_user, 404))
    ELSE IF Owner # current_user
    THEN Reject(VaultResult("share_vault", current_user, 403))
    ELSE LET target_user_id == target_user(share_request)
         IN IF target_user_id = None
            THEN Reject(VaultResult("share_vault", current_user, 404))
            ELSE IF target_user_id = current_user
            THEN Reject(VaultResult("share_vault", current_user, 400))
            ELSE /\ vault_shares' =
                       [uid \in DOMAIN vault_shares \cup {target_user_id} |->
                           IF uid = target_user_id THEN permissions ELSE vault_shares[uid]]
                 /\ resp' = VaultResult("share_vault", current_user, 200)
                 /\ UNCHANGED <<now, latest, messages, heap, message_count, next_id, tasks,
                                denied, vaults_db>>

remove_share(shares, user_id) == [uid \in DOMAIN shares \ {user_id} |-> shares[uid]]

remove_vault_sharing(current_user, user_id) ==
    IF VaultId \notin vaults_db
    THEN Reject(VaultResult("remove_vault_sharing", current_user, 404))
    ELSE IF Owner # current_user
    THEN Reject(VaultResult("remove_vault_sharing", current_user, 403))
    ELSE IF user_id \notin DOMAIN USERS_DB \/ user_id \notin DOMAIN vault_shares
    THEN Reject(VaultResult("remove_vault_sharing", current_user, 404))
    ELSE /\ vault_shares' = remove_share(vault_shares, user_id)
         /\ resp' = VaultResult("remove_vault_sharing", current_user, 204)
         /\ UNCHANGED <<now, latest, messages, heap, message_count, next_id, tasks,
                        denied, vaults_db>>

(* the handlers of messages.py from their first line *)
add_vault_message(user, content_type, content, media_content_hash, unlock_time) ==
    IF VaultId \notin vaults_db
    THEN Reject(Respond("add", 404, NoBody))
    ELSE IF ~has_write_permission(user)
    THEN Reject(Respond("add", 403, NoBody))
    ELSE add_vault_message_start(user, content_type, content, media_content_hash, unlock_time)

get_message_details(user, message_id) ==
    IF VaultId \notin vaults_db
    THEN Reject(Respond("get", 404, NoBody))
    ELSE IF ~has_access(user)
    THEN Reject(Respond("get", 403, NoBody))
    ELSE get_message_details_start(message_id)

get_vault_messages_of(user, status, offset, limit) ==
    IF VaultId \notin vaults_db
    THEN Reject(Respond("list", 404, NoBody))
    ELSE IF ~has_access(user)
    THEN Reject(Respond("list", 403, NoBody))
    ELSE get_vault_messages(status, offset, limit)

delete_message_of(user, message_id) ==
    IF VaultId \notin vaults_db
    THEN Reject(Respond("delete", 404, NoBody))
    ELSE IF ~has_delete_permission(user, message_id)
    THEN Reject(Respond("delete", 403, NoBody))
    ELSE delete_message(message_id)

(* One vault, its owner and two other registered users: the owner shares and
   stops sharing, everybody reads, tries to delete the vault and adds. *)
NextShare ==
    \/ \E u \in Callers, t \in ShareTargets, p \in SharePermissions : share_vault(u, t, p)
    \/ \E u \in Callers, uid \in UserIds : remove_vault_sharing(u, uid)
    \/ \E u \in Callers : get_vault_details(u)
    \/ \E u \in Callers : delete_vault(u)
    \/ \E u \in Callers, ut \in Times, c \in Payloads : add_vault_message(u, "text", c, None, ut)
    \/ \E f \in Frames(tasks), o \in ChainOutcomes : add_vault_message_resume(f, o)

SpecShare == Init /\ [][NextShare]_vars

(* One vault with the requests of messages.py arriving from their first
   line, while the owner may delete the vault at any moment. *)
NextVault ==
    \/ Tick
    \/ BeaconProduce
    \/ \E u \in Callers : get_vault_details(u)
    \/ \E u \in Callers : delete_vault(u)
    \/ \E u \in Callers, s \in StatusFilters, pg \in Pagings :
          get_vault_messages_of(u, s, pg[1], pg[2])
    \/ \E u \in Callers, ut \in Times, c \in Payloads : add_vault_message(u, "text", c, None, ut)
    \/ \E f \in Frames(tasks), o \in ChainOutcomes : add_vault_message_resume(f, o)
    \/ \E u \in Callers, id \in MessageIds : get_message_details(u, id)
    \/ \E f \in Frames(tasks), o \in ChainOutcomes : get_message_details_chain(f, o)
    \/ \E f \in Frames(tasks), o \in AllRoundOutcomes : get_message_details_round(f, o)
    \/ \E u \in Callers, id \in MessageIds : delete_message_of(u, id)

SpecVault == Init /\ [][NextVault]_vars

(* A beacon whose /info answers are not always the same: each chain-info
   fetch is answered with one of two well-formed chains. *)
SlowChainInfo == [genesis_time |-> Genesis, period |-> Period + Period]

ChainInfos == {ChainInfo, SlowChainInfo}

NextChain ==
    \/ Tick
    \/ BeaconProduce
    \/ \E ut \in Times, c \in Payloads : add_vault_message_start(Owner, "text", c, None, ut)
    \/ \E f \in Frames(tasks), o \in ChainOutcomes, c \in ChainInfos :
          add_vault_message_chain(f, o, c)
    \/ \E id \in MessageIds : get_message_details_start(id)
    \/ \E f \in Frames(tasks), o \in ChainOutcomes, c \in ChainInfos :
          get_message_details_chain_info(f, o, c)
    \/ \E f \in Frames(tasks), o \in AllRoundOutcomes : get_message_details_round(f, o)

SpecChain == Init /\ [][NextChain]_vars

----------------------------------------------------------------------------
(* Properties *)

Stored == Range(messages)
Revealed(m) == IF m.content_type = "text" THEN m.content # None ELSE m.media_url # None
TargetRound(m) == compute_round_for_time(m.unlock_time)
LockedIds == {id \in Stored : heap[id].is_locked}
UnlockedIds == {id \in Stored : ~heap[id].is_locked}
ServerErrors == {500, 503}
StoredUnchanged == messages' = messages /\ \A id \in Stored : heap'[id] = heap[id]

(* C1: any number of concurrent get_message_details calls on one LOCKED message
   whose round is available move the counters by exactly one locked->unlocked
   delta in total: from {1,1,0} the counters are only ever {1,1,0} or {1,0,1}. *)
AtMostOnceUnlock ==
    \/ message_count = [total |-> 1, locked |-> 1, unlocked |-> 0]
    \/ message_count = [total |-> 1, locked |-> 0, unlocked |-> 1]

(* C2: total = locked + unlocked = number of messages in vault.messages, in every
   state reached by any interleaving of create, access, list and delete. *)
CounterInvariant ==
    /\ message_count.total = message_count.locked + message_count.unlocked
    /\ message_count.total = Len(messages)

(* a LOCKED message was deleted while an access to it was suspended, and the
   access then applied its counter delta *)
CounterInvariantWitness ==
    /\ messages = <<>>
    /\ message_count.locked = -1
    /\ message_count.unlocked = 1
    /\ resp.op = "get"

(* C3: a stored message has revealed content if and only if it is UNLOCKED. *)
RevealedIffUnlocked ==
    \A id \in Stored : Revealed(heap[id]) <=> ~heap[id].is_locked

(* C4: a stored message goes from LOCKED to UNLOCKED only in a step in which
   an access got a positive round-availability answer for its target round. *)
UnlockOnlyOnRoundAvailable ==
    [][\A id \in Stored :
          (heap[id].is_locked /\ id \in DOMAIN heap' /\ ~heap'[id].is_locked)
          => \E f \in Frames(tasks) :
                /\ f.op = "get" /\ f.at = "round" /\ f.message_id = id
                /\ round_exists(f.target_round)
                /\ tasks' = Resume(tasks, f)]_vars

(* C5: whenever a stored message is UNLOCKED, the current time is strictly
   after its unlock_time. *)
NeverUnlockedAtOrBeforeUnlockTime ==
    \A id \in Stored : ~heap[id].is_locked => now > heap[id].unlock_time

(* C6: once a message is UNLOCKED it is never LOCKED again, so it goes from
   LOCKED to UNLOCKED at most once. *)
LockStateMonotone ==
    [][\A id \in (DOMAIN heap) \cap (DOMAIN heap') :
          ~heap[id].is_locked => ~heap'[id].is_locked]_vars

(* a message unlocked by an access, and a listing has run over it since *)
LockStateMonotoneWitness ==
    /\ resp.op = "list"
    /\ \E id \in Stored : ~heap[id].is_locked /\ Revealed(heap[id])

(* C7: get_message_details on an already-UNLOCKED message returns it as it is,
   changes neither the message nor the counters, and asks the beacon nothing. *)
IdempotentUnlock ==
    [][\A id \in MessageIds :
          (id \in Stored /\ ~heap[id].is_locked /\ get_message_details_start(id))
          => /\ resp' = Respond("get", 200, heap[id])
             /\ heap' = heap
             /\ messages' = messages
             /\ message_count' = message_count
             /\ tasks' = tasks]_vars

(* an access returned a message that a listing, not an access, had unlocked *)
IdempotentUnlockWitness ==
    /\ resp.op = "get" /\ resp.status = 200
    /\ ~resp.body.is_locked /\ ~Revealed(resp.body)
    /\ tasks = EmptyBag

(* C8: a beacon failure during get_message_details (chain-info fetch or
   round fetch) ends the call with a server error and no message body, and a
   call that ends so has changed neither the stored messages nor the counters. *)
FailClosed ==
    [][\A f \in Frames(tasks) :
          /\ (\/ get_message_details_chain(f, "unavailable")
              \/ get_message_details_round(f, "unavailable")
              \/ get_message_details_round(f, "unreachable"))
             => /\ resp'.op = "get" /\ resp'.status \in ServerErrors /\ resp'.body = NoBody
                /\ tasks' = Resume(tasks, f)
          /\ (f.op = "get" /\ tasks' = Resume(tasks, f) /\ resp'.status \in ServerErrors)
             => (StoredUnchanged /\ message_count' = message_count)]_vars

(* an access failed on the beacon although the message was due and its round
   produced, and the message is still stored LOCKED *)
FailClosedWitness ==
    /\ resp.op = "get" /\ resp.status \in ServerErrors
    /\ tasks = EmptyBag
    /\ \E id \in Stored :
          /\ heap[id].is_locked /\ heap[id].unlock_time <= now
          /\ round_exists(TargetRound(heap[id]))
          /\ ~Revealed(heap[id])
    /\ message_count.locked = 1 /\ message_count.unlocked = 0

(* C9: locked counts the stored messages with is_locked, unlocked the stored
   messages without. *)
BucketConsistency ==
    /\ message_count.locked = Cardinality(LockedIds)
    /\ message_count.unlocked = Cardinality(UnlockedIds)

(* C10, as claimed: a get_message_details call on a stored LOCKED message whose
   target round the beacon has produced does not return the locked view. *)
UnlockOnAccess ==
    [][\A id \in MessageIds :
          (/\ id \in Stored /\ heap[id].is_locked
           /\ round_exists(TargetRound(heap[id]))
           /\ get_message_details_start(id))
          => ~(resp' = Respond("get", 200, heap[id]) /\ tasks' = tasks)]_vars

(* C10, amended: a call on a stored LOCKED message whose unlock_time is at or
   before the current time asks the beacon; and when the beacon is reachable
   and reports the target round available, the call returns the message
   UNLOCKED with revealed content and moves the counters from {locked: k,
   unlocked: j} to {locked: k-1, unlocked: j+1}. *)
UnlockOnAccessWhenDue ==
    [][/\ \A id \in MessageIds :
            (/\ id \in Stored /\ heap[id].is_locked /\ heap[id].unlock_time <= now
             /\ get_message_details_start(id))
            => (tasks' = Suspend(tasks, [op |-> "get", at |-> "chain", message_id |-> id])
                /\ resp' = resp)
       /\ \A f \in Frames(tasks) :
            get_message_details_chain(f, "ok")
            => tasks' = Suspend(Resume(tasks, f),
                              [op |-> "get", at |-> "round", message_id |-> f.message_id,
                               target_round |-> TargetRound(heap[f.message_id])])
       /\ \A f \in Frames(tasks) :
            (/\ f.op = "get" /\ f.at = "round" /\ tasks' = Resume(tasks, f)
             /\ round_exists(f.target_round) /\ resp'.status \notin ServerErrors)
            => /\ resp'.op = "get" /\ resp'.status = 200
               /\ ~resp'.body.is_locked /\ Revealed(resp'.body)
               /\ resp'.body.id = f.message_id
               /\ f.message_id \in Stored => heap'[f.message_id] = resp'.body
               /\ message_count'.locked = message_count.locked - 1
               /\ message_count'.unlocked = message_count.unlocked + 1
               /\ message_count'.total = message_count.total]_vars

(* the scenario of the specification: {total:1, locked:1, unlocked:0} became
   {total:1, locked:0, unlocked:1} and the access returned the revealed message *)
UnlockOnAccessWitness ==
    /\ resp.op = "get" /\ resp.status = 200
    /\ ~resp.body.is_locked /\ Revealed(resp.body)
    /\ resp.body.id \in Stored /\ heap[resp.body.id] = resp.body
    /\ message_count = [total |-> 1, locked |-> 0, unlocked |-> 1]
(* C11: is_round_available(n) ends in one of three ways, decided by the round
   fetch alone: it returns True when the fetch succeeds, which it does only for
   a round the beacon has produced; it returns False when the fetch answers
   404; on any other failure it raises what get_round raised and returns no
   boolean. *)
ThreeOutcomes ==
    [][\A f \in Frames(tasks), o \in AllRoundOutcomes :
          is_round_available_return(f, o) =>
              /\ resp'.op = "is_round_available" /\ resp'.body.arg = f.round_number
              /\ o = "ok" => resp'.status = Returned /\ resp'.body.value = "True"
                             /\ round_exists(f.round_number)
              /\ o = "notfound" => resp'.status = Returned /\ resp'.body.value = "False"
              /\ o \notin {"ok", "notfound"} =>
                     /\ resp'.status \in get_round_raises(o)
                     /\ resp'.status \in ServerErrors
                     /\ resp'.body.value \notin {"True", "False"}]_vars

(* a call has answered False for a round and the last call raised instead *)
ThreeOutcomesWitness ==
    /\ resp.op = "is_round_available"
    /\ resp.status \in ServerErrors
    /\ denied # {}

(* C12: no negative caching: however often is_round_available(n) has answered
   False before, a call whose fetch is answered by the beacon once round n is
   produced returns True; from then on no call for n returns False. *)
NoNegativeCaching ==
    [][\A f \in Frames(tasks) :
          /\ f.op = "is_round_available" /\ tasks' = Resume(tasks, f)
          /\ round_exists(f.round_number)
          /\ resp'.status = Returned
          => resp'.body.value = "True"]_vars

(* round n was answered False, and the last call for n returned True *)
NoNegativeCachingWitness ==
    /\ resp.op = "is_round_available"
    /\ resp.status = Returned
    /\ resp.body.value = "True"
    /\ resp.body.arg \in denied

(* C13: when the round fetch of get_message_details answers 404, the call ends
   200 with the message as it is stored, no error reaches the caller, and
   neither a stored message nor a counter changes; for a message still LOCKED
   the body is the locked view: is_locked True and nothing revealed. *)
LockedViewWhenRoundNotProduced ==
    [][\A f \in Frames(tasks) :
          get_message_details_round(f, "notfound") =>
              /\ resp' = Respond("get", 200, heap[f.message_id])
              /\ heap[f.message_id].is_locked =>
                     resp'.body.is_locked /\ ~Revealed(resp'.body)
              /\ StoredUnchanged
              /\ message_count' = message_count]_vars

(* a due message whose round the beacon has not produced was read: the last
   response is its locked view and it is still stored LOCKED and counted so *)
LockedViewWhenRoundNotProducedWitness ==
    /\ resp.op = "get" /\ resp.status = 200
    /\ tasks = EmptyBag
    /\ \E id \in Stored :
          /\ resp.body = heap[id]
          /\ heap[id].is_locked /\ ~Revealed(heap[id])
          /\ heap[id].unlock_time <= now
          /\ ~round_exists(TargetRound(heap[id]))
    /\ message_count = [total |-> 1, locked |-> 1, unlocked |-> 0]

(* the plaintext submitted for a stored TEXT message: the payload of the
   envelope whose hash the message keeps as encrypted_hash *)
SealedPayload(m) == json_loads(m.encrypted_hash[2]).payload

(* C14: an unlocked TEXT message shows the payload that was sealed at creation:
   whenever a stored TEXT message has content set, the content is the
   plaintext submitted to add_vault_message. *)
RevealedContentIsSealedPayload ==
    \A id \in Stored :
        (heap[id].content_type = "text" /\ heap[id].content # None)
            => heap[id].content = SealedPayload(heap[id])

(* C15: decrypt_message returns content only when the payload hashes to the
   envelope's message_hash: a call on an envelope whose payload does not match
   its tag never returns content. *)
IntegrityCheckedOnReveal ==
    (/\ resp.op = "decrypt_message"
     /\ resp.status = Returned
     /\ resp.body.value # None)
        => json_loads(resp.body.arg).message_hash = <<"sha256", resp.body.value>>

(* C16: sealing with an unlock time that is not strictly in the future fails:
   a direct call of compute_round_for_time for a time at or before the clock
   at the moment of the call never returns a round, well-formed chain
   parameters included. *)
PastUnlockTimeRejected ==
    ~ /\ resp.op = "compute_round_for_time"
      /\ resp.status = Returned
      /\ resp.body.arg.chain_info.period > 0
      /\ resp.body.arg.target_time <= resp.body.arg.called_at

(* a direct compute_round_for_time call has returned a round *)
RoundReturned == resp.op = "compute_round_for_time" /\ resp.status = Returned
RoundArg == resp.body.arg

(* C17: for a chain with period > 0 and a time t at or after genesis_time the
   round returned is floor((t - genesis_time) / period) + 1; on the test chain
   (genesis 1595431050, period 30) the time genesis + 301 gives round 11. *)
RoundFormula ==
    (/\ RoundReturned
     /\ RoundArg.chain_info.period > 0
     /\ RoundArg.target_time >= RoundArg.chain_info.genesis_time)
        => /\ resp.body.value =
                ((RoundArg.target_time - RoundArg.chain_info.genesis_time)
                    \div RoundArg.chain_info.period) + 1
           /\ (RoundArg.chain_info = TestChain /\ RoundArg.target_time = TestGenesis + 301)
                 => resp.body.value = 11

(* the test chain was asked for genesis + 301 and round 11 came back *)
RoundFormulaWitness ==
    /\ RoundReturned
    /\ RoundArg.chain_info = TestChain
    /\ RoundArg.target_time = TestGenesis + 301
    /\ resp.body.value = 11

(* C18: for a chain with period > 0 and a time strictly before genesis_time
   the round returned is exactly 1, and no round returned is below 1. *)
ClampedBeforeGenesis ==
    (RoundReturned /\ RoundArg.chain_info.period > 0)
        => /\ resp.body.value >= 1
           /\ RoundArg.target_time < RoundArg.chain_info.genesis_time
                 => resp.body.value = 1

(* C19: with fetched chain parameters whose period is zero or negative,
   compute_round_for_time fails and returns no round. *)
NonPositivePeriodRejected ==
    RoundReturned => RoundArg.chain_info.period > 0

(* C20: for a chain with period > 0, the round returned for a time is at least
   the round of every earlier time, times before genesis included. *)
RoundMonotone ==
    (RoundReturned /\ RoundArg.chain_info.period > 0)
        => \A t1 \in TargetTimes :
              t1 < RoundArg.target_time
                  => round_for_time(RoundArg.chain_info, t1) <= resp.body.value

(* a round above that of an earlier time before genesis was returned *)
RoundMonotoneWitness ==
    /\ RoundReturned
    /\ RoundArg.chain_info.period > 0
    /\ \E t1 \in TargetTimes :
          /\ t1 < RoundArg.chain_info.genesis_time
          /\ t1 < RoundArg.target_time
          /\ round_for_time(RoundArg.chain_info, t1) < resp.body.value

(* C21: for a chain with period > 0 and a round r >= 1, the round computed for
   the time time_for_round returns for r, genesis_time + r * period, is r + 1. *)
BoundaryExactness ==
    (/\ resp.op = "time_for_round"
     /\ resp.status = Returned
     /\ resp.body.arg.chain_info.period > 0)
        => /\ resp.body.value = resp.body.arg.chain_info.genesis_time
                                 + resp.body.arg.round_number * resp.body.arg.chain_info.period
           /\ round_for_time(resp.body.arg.chain_info, resp.body.value)
                 = resp.body.arg.round_number + 1

(* the time of a round above 1 on the test chain came back, and the round
   computed for it is the next one *)
BoundaryExactnessWitness ==
    /\ resp.op = "time_for_round"
    /\ resp.status = Returned
    /\ resp.body.arg.chain_info = TestChain
    /\ resp.body.arg.round_number > 1
    /\ round_for_time(TestChain, resp.body.value) = resp.body.arg.round_number + 1

(* C22: decrypt_message on what encrypt_message(m, r) returned gives None
   while round r is not available and exactly m once it is; the envelope
   records target_round r and payload m. *)
SealRevealRoundTrip ==
    [][\A f \in Frames(tasks), m \in Texts, r \in Rounds :
          (/\ f.op = "decrypt_message"
           /\ f.encrypted_data = encrypt_message(m, r)[1]
           /\ tasks' = Resume(tasks, f)
           /\ resp'.status = Returned)
          => /\ json_loads(f.encrypted_data).target_round = r
             /\ json_loads(f.encrypted_data).payload = m
             /\ IF round_exists(r) THEN m = resp'.body.value
                                    ELSE resp'.body.value = None]_vars

(* a sealed envelope was answered None while its round was missing, and the
   last call on an envelope of that round returned the sealed message *)
SealRevealRoundTripWitness ==
    /\ resp.op = "decrypt_message"
    /\ resp.status = Returned
    /\ \E m \in Texts, r \in denied :
          /\ resp.body.arg = encrypt_message(m, r)[1]
          /\ m = resp.body.value

(* the counters after one message leaves the bucket it is counted in: a
   message is counted as locked from its creation until an access reveals it *)
CountedOut(c, m) ==
    IF Revealed(m)
    THEN [c EXCEPT !.total = @ - 1, !.unlocked = @ - 1]
    ELSE [c EXCEPT !.total = @ - 1, !.locked = @ - 1]

(* C23: delete_message of a stored message removes that message only, takes 1
   from total and 1 from the bucket the message was counted in, leaves the
   other bucket and every other message as they were, and a get of a message
   that is not stored answers 404. *)
DeleteFrame ==
    [][\A id \in MessageIds :
          /\ (delete_message(id) /\ id \in Stored)
                => /\ resp' = Respond("delete", 204, NoBody)
                   /\ messages' = SelectIds(messages, Stored \ {id})
                   /\ \A other \in Stored \ {id} : heap'[other] = heap[other]
                   /\ message_count' = CountedOut(message_count, heap[id])
          /\ (get_message_details_start(id) /\ id \notin Stored)
                => resp' = Respond("get", 404, NoBody)]_vars

(* C24: a successful add_vault_message appends exactly one new message, LOCKED
   and with nothing revealed, adds 1 to total and to locked, leaves unlocked
   as it was, and leaves every message already in the vault as it was. *)
AddFrame ==
    [][\A f \in Frames(tasks) :
          add_vault_message_resume(f, "ok") =>
              /\ resp'.op = "add" /\ resp'.status = 201
              /\ Len(messages') = Len(messages) + 1
              /\ SubSeq(messages', 1, Len(messages)) = messages
              /\ LET id == messages'[Len(messages')]
                 IN /\ id \notin Stored
                    /\ heap'[id].is_locked /\ ~Revealed(heap'[id])
                    /\ resp'.body = heap'[id]
              /\ message_count'.total = message_count.total + 1
              /\ message_count'.locked = message_count.locked + 1
              /\ message_count'.unlocked = message_count.unlocked
              /\ \A id \in Stored : heap'[id] = heap[id]]_vars

(* a message was added to a vault holding an unlocked message, which still
   shows what it showed *)
AddFrameWitness ==
    /\ resp.op = "add" /\ resp.status = 201
    /\ Len(messages) = 2
    /\ ~heap[messages[1]].is_locked /\ Revealed(heap[messages[1]])
    /\ heap[messages[2]].is_locked
    /\ message_count = [total |-> 2, locked |-> 1, unlocked |-> 1]

(* C25: get_round ends 404 exactly when the beacon answers 404, and 503 on
   every other failure, another non-2xx status or no answer at all; it raises
   nothing else. *)
BeaconErrorKinds ==
    resp.op = "get_round" =>
        /\ resp.body.arg.beacon = "ok" => resp.status = Returned
        /\ resp.body.arg.beacon = "notfound" => resp.status = 404
        /\ resp.body.arg.beacon \in {"unavailable", "unreachable"} => resp.status = 503

(* C28: an access that resumes from the beacon after delete_message removed
   its LOCKED message changes neither the counters nor vault.messages. *)
ResumeAfterDeleteChangesNothing ==
    [][\A f \in Frames(tasks), o \in AllRoundOutcomes :
          (/\ f.op = "get" /\ f.at = "round"
           /\ f.message_id \notin Stored
           /\ heap[f.message_id].is_locked
           /\ get_message_details_round(f, o))
              => /\ message_count' = message_count
                 /\ messages' = messages]_vars

(* C26: get_vault_details answers 200 exactly for the owner and the users
   who have a share entry at that moment, and 403 for everybody else; a
   successful share_vault gives its target an entry and a successful
   remove_vault_sharing takes it away; delete_vault by anybody but the owner
   leaves the vault where it is. *)
VaultReadAccess ==
    [][/\ \A u \in Callers :
             /\ (get_vault_details(u) /\ VaultId \in vaults_db)
                   => /\ resp'.status = IF u = Owner \/ u \in DOMAIN vault_shares
                                        THEN 200 ELSE 403
                      /\ UNCHANGED <<vaults_db, vault_shares>>
             /\ (delete_vault(u) /\ u # Owner /\ VaultId \in vaults_db)
                   => /\ resp'.status = 403
                      /\ UNCHANGED <<vaults_db, vault_shares>>
       /\ \A u \in Callers, t \in ShareTargets, p \in SharePermissions :
             (share_vault(u, t, p) /\ resp'.status = 200)
                => /\ u = Owner
                   /\ DOMAIN vault_shares' = DOMAIN vault_shares \cup {target_user(t)}
       /\ \A u \in Callers, uid \in UserIds :
             (remove_vault_sharing(u, uid) /\ resp'.status = 204)
                => /\ u = Owner
                   /\ DOMAIN vault_shares' = DOMAIN vault_shares \ {uid}]_vars

(* the owner stopped sharing with one user while another still has a share,
   and the user who lost the share is refused *)
VaultReadAccessWitness ==
    /\ resp = VaultResult("get_vault_details", Friend, 403)
    /\ DOMAIN vault_shares = {Guest}

(* C30: add_vault_message by a user who is neither the owner nor holds a
   readwrite share answers 403, changes neither vault.messages nor the
   counters and suspends on no beacon call; only a call by the owner or a
   readwrite user gets as far as the beacon, and the message a resumed call
   stores was created by the user who passed that check. *)
AddNeedsWritePermission ==
    [][/\ \A u \in Callers, ut \in Times, c \in Payloads :
             (add_vault_message(u, "text", c, None, ut) /\ VaultId \in vaults_db)
                => IF u = Owner \/ (u \in DOMAIN vault_shares /\ vault_shares[u] = "readwrite")
                   THEN \/ resp' = Respond("add", 400, NoBody) /\ tasks' = tasks
                        \/ /\ BagCardinality(tasks') = BagCardinality(tasks) + 1
                           /\ \E f \in Frames(tasks') : f.op = "add" /\ f.user = u
                   ELSE /\ resp' = Respond("add", 403, NoBody)
                        /\ UNCHANGED <<tasks, messages, heap, message_count, next_id>>
       /\ \A f \in Frames(tasks), o \in ChainOutcomes :
             (add_vault_message_resume(f, o) /\ resp'.status = 201)
                => resp'.body.created_by = f.user]_vars

(* a user with a readwrite share has added a message, and a user with a
   read share is refused *)
AddNeedsWritePermissionWitness ==
    /\ resp = Respond("add", 403, NoBody)
    /\ DOMAIN vault_shares = {Friend, Guest}
    /\ vault_shares[Friend] = "read" /\ vault_shares[Guest] = "readwrite"
    /\ Len(messages) = 1 /\ heap[messages[1]].created_by = Guest
    /\ message_count = [total |-> 1, locked |-> 1, unlocked |-> 0]

(* C27: once delete_vault has removed the vault it stays removed, and every
   answer given from then on, to a new request or to a call that was
   suspended at the beacon when the vault was deleted, is 404. *)
VaultDeletionIsFinal ==
    [][VaultId \notin vaults_db
          => /\ VaultId \notin vaults_db'
             /\ resp' # resp => resp'.status = 404]_vars

(* the round a text message was sealed for, as its envelope records it *)
SealedRound(m) == json_loads(m.encrypted_hash[2]).target_round

(* C29: the round whose availability an access checks is the round the
   message was sealed for at its creation, whatever chain info the beacon
   answered in between. *)
CheckedRoundIsSealedRound ==
    \A f \in Frames(tasks) :
        (f.op = "get" /\ f.at = "round" /\ heap[f.message_id].content_type = "text")
            => f.target_round = SealedRound(heap[f.message_id])

====
